---- MODULE Spec2Model ----
(***************************************************************************)
(* Model of the JWT credential-and-session service: the user table, the    *)
(* refresh-token whitelist table, and the request handlers (register,      *)
(* login, logout, usersDetails behind authenticateToken, updateUserById,   *)
(* deleteUserById) that run as concurrent tasks and suspend at every       *)
(* storage call.                                                           *)
(*                                                                         *)
(* One step of a task is one storage call together with the code that runs *)
(* after it up to the next storage call (or up to the HTTP response).      *)
(* Strings are sequences of one-character strings; a missing field is the  *)
(* empty sequence.  Numeric ids start at 1; 0 is a missing (falsy) id.     *)
(***************************************************************************)
EXTENDS Integers, Sequences, FiniteSets

VARIABLES
    users,        \* table `user`: rows [id, email, full_name, password]
    nextUserId,   \* AUTO_INCREMENT of table `user`
    whitelist,    \* table `jwt_whitelist`: rows [id, user_id, refresh_token, expires_at, created_at]
    nextWlId,     \* AUTO_INCREMENT of table `jwt_whitelist`
    now,          \* wall clock, in seconds
    ticks,        \* number of clock advances so far
    tasks,        \* the in-flight request of every task slot
    last,         \* the response sent most recently, until the next request is accepted
    outstanding,  \* (user_id, refresh_token) pairs returned by a login and not since revoked
    revoked,      \* (user_id, refresh_token) pairs some logout has revoked
    secret        \* process.env.JWT_SECRET, read when the process starts

vars == <<users, nextUserId, whitelist, nextWlId, now, ticks, tasks, last,
          outstanding, revoked, secret>>

----------------------------------------------------------------------------
(* Bounds of the model *)

NumTasks == 2
MaxUsers == 2
MaxRows == 2
MaxTicks == 1

Tasks == 1..NumTasks

----------------------------------------------------------------------------
(* Program constants *)

saltRounds == 12
MinPasswordLen == 8
AccessTTL == 15 * 60
RefreshDays == 7
DaySecs == 24 * 60 * 60
RefreshTTL == RefreshDays * DaySecs
TzOffset == 8 * 3600

----------------------------------------------------------------------------
(* Input values *)

Missing == << >>
Blank == <<" ">>
EmailAnn == <<"a", "@", "x", ".", "y">>
EmailBob == <<"b", "@", "x", ".", "y">>
EmailBad == <<"a", "x", ".", "y">>
PassAnn == <<"l", "o", "n", "g", "p", "a", "s", "1">>
PassBob == <<"l", "o", "n", "g", "p", "a", "s", "2">>
PassShort == <<"s", "h", "o", "r", "t", "1">>
NameAnn == <<"A", "n", "n">>

Emails == {EmailAnn, EmailBob}

\* Request bodies of POST /register: <<full_name, email, password>>
RegisterInputs ==
    {<<NameAnn, EmailAnn, PassAnn>>, <<NameAnn, EmailBob, PassBob>>,
     <<Blank, EmailAnn, PassAnn>>, <<NameAnn, EmailBad, PassShort>>,
     <<NameAnn, EmailAnn, PassShort>>}

\* Request bodies of POST /login: <<email, password>>
LoginInputs ==
    {<<EmailAnn, PassAnn>>, <<EmailBob, PassBob>>, <<EmailAnn, PassBob>>,
     <<Missing, PassAnn>>}

\* Requests of PUT /api/users/:id: <<id, email, full_name>>
UpdateInputs ==
    {<<u, em, NameAnn>> : u \in 1..MaxUsers, em \in Emails}
        \cup {<<0, EmailAnn, NameAnn>>, <<1, Missing, NameAnn>>}

\* Clock advances: a second, to the expiry of an access token, and past the
\* expiry of a refresh token
TickSteps == {1, AccessTTL, RefreshTTL + 1}

NoTok == [id |-> 0, iat |-> 0, exp |-> 0, sig |-> "none"]
NoHash == [alg |-> "none", rounds |-> 0, of |-> Missing]
NoDate == [date |-> 0, time |-> 0]
NoUser == [id |-> 0, full_name |-> Missing, email |-> Missing]

\* process.env.JWT_SECRET: the value of the .env file, or undefined when unset
EnvSecret == "env-secret"
NoSecret == "undefined"
Secrets == {EnvSecret, NoSecret}

----------------------------------------------------------------------------
(* Pure helpers *)

\* JavaScript  !s || s.trim() === ""
IsBlank(s) == \A k \in 1..Len(s) : s[k] = " "

\* JavaScript  !s || s == ""
IsEmpty(s) == Len(s) = 0

\* /^[^\s@]+@[^\s@]+\.[^\s@]+$/.test(email)
EmailFormatOK(e) ==
    \E a \in 1..Len(e) : \E d \in 1..Len(e) :
        /\ e[a] = "@"
        /\ e[d] = "."
        /\ 1 < a
        /\ a + 1 < d
        /\ d < Len(e)
        /\ \A k \in 1..Len(e) : k # a => e[k] \notin {"@", " "}

\* Mutant of the hashing in registerUser: the password is passed on as it came
bcryptHashSkipped(p) == [alg |-> "plain", rounds |-> 0, of |-> p]

\* bcryptjs.hash(password, saltRounds)
bcryptHash(p) == [alg |-> "bcrypt", rounds |-> saltRounds, of |-> p]

\* bcryptjs.compare(password, hash)
bcryptCompare(p, h) == h.alg = "bcrypt" /\ h.of = p

\* Mutant of jwt.sign: expiresIn is ignored, every token lives 15 minutes
jwtSignFixedExpiry(id, ttl) ==
    [id |-> id, iat |-> now, exp |-> now + AccessTTL, sig |-> "HS256"]

\* jwt.sign({ id }, JWT_SECRET, { expiresIn }): HS256 over {id, iat, exp}
jwtSign(id, ttl) == [id |-> id, iat |-> now, exp |-> now + ttl, sig |-> "HS256"]

\* The message of the Error jwt.sign throws when its secret is undefined
jwtSignError == "secretOrPrivateKey must have a value"

\* jwt.verify(token, process.env.JWT_SECRET): the name of the error it throws,
\* or "OK".  The signature is checked before the expiry; a token is expired
\* from the second its exp names.
jwtVerify(token) ==
    IF secret = NoSecret \/ token.sig # "HS256"
    THEN "JsonWebTokenError"
    ELSE IF now >= token.exp
    THEN "TokenExpiredError"
    ELSE "OK"

\* new Date(ms).toISOString().replace("T", " ").slice(0, 19)
MySQLDatetime(secs) == [date |-> secs \div DaySecs, time |-> secs % DaySecs]

\* The order of two MySQL datetimes
DatetimeBefore(a, b) == a.date < b.date \/ (a.date = b.date /\ a.time < b.time)

\* DatetimeUtil.now()
DatetimeNow == MySQLDatetime(now + TzOffset)

\* Mutant of DatetimeUtil.expiryFromDays: the GMT+8 offset is left out
expiryFromDaysNoOffset(days) == MySQLDatetime(now + days * DaySecs)

\* DatetimeUtil.expiryFromDays(days)
expiryFromDays(days) == MySQLDatetime(now + days * DaySecs + TzOffset)

----------------------------------------------------------------------------
(* Storage layer: the queries of models/User.js and models/Whitelist.js *)

\* Mutant of User.emailExists: the query loses LIMIT 1 and the test reads rows.length > 1
emailExistsMoreThanOne(email) ==
    \E q \in users : \E r \in users : q # r /\ q.email = email /\ r.email = email

\* User.emailExists: SELECT 1 FROM user WHERE email = ? LIMIT 1
emailExists(email) == \E r \in users : r.email = email

\* User.userExistByUserId: SELECT 1 FROM user WHERE id = ? LIMIT 1
userExistByUserId(user_id) == \E r \in users : r.id = user_id

\* User.userExistByEmail: the rows the SELECT ... WHERE email = ? matches;
\* LIMIT 1 returns any one of them
userExistByEmail(email) == {r \in users : r.email = email}

\* User.fetchUserInformationByUserId: the row without its password, or null
fetchUserInformationByUserId(user_id) ==
    IF \E r \in users : r.id = user_id
    THEN LET r == CHOOSE r \in users : r.id = user_id
         IN  [id |-> r.id, full_name |-> r.full_name, email |-> r.email]
    ELSE NoUser

\* User.create: INSERT INTO user (email, full_name, password)
UserCreate(email, full_name, password) ==
    users \cup {[id |-> nextUserId, email |-> email, full_name |-> full_name,
                 password |-> password]}

\* User.updateUser: UPDATE user SET email = ?, full_name = ? WHERE id = ?
updateUser(user_id, email, full_name) ==
    {IF r.id = user_id
     THEN [r EXCEPT !.email = email, !.full_name = full_name]
     ELSE r : r \in users}

\* User.deleteUser: DELETE FROM user WHERE id = ?
deleteUser(user_id) == {r \in users : r.id # user_id}

\* Mutant of Whitelist.create: the insert first deletes the user's other rows
WhitelistCreateReplacing(user_id, refresh_token, expires_at) ==
    {w \in whitelist : w.user_id # user_id}
        \cup {[id |-> nextWlId, user_id |-> user_id,
                refresh_token |-> refresh_token, expires_at |-> expires_at,
                created_at |-> DatetimeNow]}

\* Whitelist.create: INSERT INTO jwt_whitelist (user_id, refresh_token, expires_at, created_at)
WhitelistCreate(user_id, refresh_token, expires_at) ==
    whitelist \cup {[id |-> nextWlId, user_id |-> user_id,
                     refresh_token |-> refresh_token, expires_at |-> expires_at,
                     created_at |-> DatetimeNow]}

\* The rows matched by  WHERE user_id = ? AND refresh_token = ?
WhitelistMatch(user_id, refresh_token) ==
    {w \in whitelist : w.user_id = user_id /\ w.refresh_token = refresh_token}

\* Mutant of Whitelist.delete: the DELETE matches no row
WhitelistDeleteNone(user_id, refresh_token) == whitelist

\* Mutant of Whitelist.delete: the WHERE clause drops the refresh_token test
WhitelistDeleteAllOfUser(user_id, refresh_token) ==
    {w \in whitelist : w.user_id # user_id}

\* Mutant of Whitelist.delete: the WHERE clause joins its two tests with OR
WhitelistDeleteEither(user_id, refresh_token) ==
    {w \in whitelist : ~(w.user_id = user_id \/ w.refresh_token = refresh_token)}

\* Whitelist.delete: DELETE FROM jwt_whitelist WHERE user_id = ? AND refresh_token = ?
WhitelistDelete(user_id, refresh_token) ==
    whitelist \ WhitelistMatch(user_id, refresh_token)

\* Mutant of Whitelist.doesRefreshTokenExist: the WHERE clause also tests
\* expires_at against the current time
doesRefreshTokenExistUnexpired(user_id, refresh_token) ==
    \E w \in WhitelistMatch(user_id, refresh_token) :
        ~DatetimeBefore(w.expires_at, DatetimeNow)

\* Mutant of Whitelist.doesRefreshTokenExist: the WHERE clause drops the user_id test
doesRefreshTokenExistAnyUser(user_id, refresh_token) ==
    \E w \in whitelist : w.refresh_token = refresh_token

\* Whitelist.doesRefreshTokenExist: SELECT 1 ... WHERE user_id = ? AND refresh_token = ? LIMIT 1
doesRefreshTokenExist(user_id, refresh_token) ==
    WhitelistMatch(user_id, refresh_token) # {}

----------------------------------------------------------------------------
(* Request tasks *)

IdleTask ==
    [pc |-> "idle", op |-> "none", full_name |-> Missing, email |-> Missing,
     password |-> Missing, hash |-> NoHash, user_id |-> 0,
     refresh_token |-> NoTok, access_token |-> NoTok, expires_at |-> NoDate,
     affected |-> 0]

NoResponse ==
    [op |-> "none", at |-> "idle", svc |-> "NONE", status |-> 0, error |-> "NONE",
     user_id |-> 0, token |-> NoTok, affected |-> 0,
     access_token |-> NoTok, refresh_token |-> NoTok, user |-> NoUser]

\* An HTTP response to the request of task record t, which ended at t.pc:
\* svc is the outcome of the service call, error the body's error field;
\* user_id, token and affected are the task's (the request's user id and refresh
\* token, the rows its delete removed), the remaining fields the body's data.
Response(t, svc, status, error) ==
    [op |-> t.op, at |-> t.pc, svc |-> svc, status |-> status, error |-> error,
     user_id |-> t.user_id, token |-> t.refresh_token, affected |-> t.affected,
     access_token |-> NoTok, refresh_token |-> NoTok, user |-> NoUser]

Free(i) == tasks[i].pc = "idle"

\* A new request takes the first free task slot.
CanStart(i) == Free(i) /\ \A j \in Tasks : j < i => ~Free(j)

InFlight(op) == Cardinality({j \in Tasks : tasks[j].op = op})

Finish(i, resp) ==
    /\ tasks' = [tasks EXCEPT ![i] = IdleTask]
    /\ last' = resp

Goto(i, t) ==
    /\ tasks' = [tasks EXCEPT ![i] = t]
    /\ UNCHANGED last

\* A request that passed its field validation is under way; `last` shows a
\* response only until the next request is accepted.
Accept(i, t) ==
    /\ tasks' = [tasks EXCEPT ![i] = t]
    /\ last' = NoResponse

Tables == <<users, nextUserId, whitelist, nextWlId>>
Clock == <<now, ticks>>
Ghosts == <<outstanding, revoked>>

----------------------------------------------------------------------------
(* controllers/authController.js: the error switch of each controller *)

\* Mutant of register's error switch: EMAIL_EXISTS falls into the case of
\* PASSWORD_TOO_SHORT
RegisterErrorConflictAs400(t, msg) ==
    CASE msg = "ALL_FIELDS_REQUIRED" ->
            Response(t, msg, 400, "All fields (full_name, email, password) are required")
      [] msg = "INVALID_EMAIL_FORMAT" ->
            Response(t, msg, 400, "Email must be a valid format (e.g., user@example.com)")
      [] msg \in {"EMAIL_EXISTS", "PASSWORD_TOO_SHORT"} ->
            Response(t, msg, 400, "Password must be at least 8 characters long")
      [] OTHER -> Response(t, msg, 500, msg)

\* Mutant of register's error switch: the default case is missing, so the
\* initial statusCode and errorDetails stand
RegisterErrorNoDefault(t, msg) ==
    CASE msg = "ALL_FIELDS_REQUIRED" ->
            Response(t, msg, 400, "All fields (full_name, email, password) are required")
      [] msg = "INVALID_EMAIL_FORMAT" ->
            Response(t, msg, 400, "Email must be a valid format (e.g., user@example.com)")
      [] msg = "EMAIL_EXISTS" ->
            Response(t, msg, 409, "Email address is already registered")
      [] msg = "PASSWORD_TOO_SHORT" ->
            Response(t, msg, 400, "Password must be at least 8 characters long")
      [] OTHER -> Response(t, msg, 400, "Invalid request")

\* register: catch (error) { switch (error.message) ... }
RegisterError(t, msg) ==
    CASE msg = "ALL_FIELDS_REQUIRED" ->
            Response(t, msg, 400, "All fields (full_name, email, password) are required")
      [] msg = "INVALID_EMAIL_FORMAT" ->
            Response(t, msg, 400, "Email must be a valid format (e.g., user@example.com)")
      [] msg = "EMAIL_EXISTS" ->
            Response(t, msg, 409, "Email address is already registered")
      [] msg = "PASSWORD_TOO_SHORT" ->
            Response(t, msg, 400, "Password must be at least 8 characters long")
      [] OTHER -> Response(t, msg, 500, msg)

\* Mutant of login's error path: the error of the whitelist insert is swallowed
\* and the minted tokens are returned
LoginErrorSwallowed(t, msg) ==
    [Response(t, "OK", 200, "null") EXCEPT !.access_token = t.access_token,
                                           !.refresh_token = t.refresh_token]

\* login: catch (error) { switch (error.message) ... }
LoginError(t, msg) ==
    CASE msg = "ALL_FIELDS_REQUIRED" ->
            Response(t, msg, 400, "All fields (email, password) are required")
      [] msg = "INVALID_CREDENTIALS" ->
            Response(t, msg, 401, "Invalid email or password")
      [] OTHER -> Response(t, msg, 500, msg)

\* logout: catch (error) { switch (error.message) ... }
LogoutError(t, msg) ==
    CASE msg = "LOGOUT_FIELDS_REQUIRED" ->
            Response(t, msg, 400, "Logout fields (user_id, refresh_token) are required")
      [] msg = "REFRESH_TOKEN_DOES_EXIST_FOR_THIS_USER" ->
            Response(t, msg, 401,
                "The refresh token does exist in the whitelist assigned to the user's ID.")
      [] OTHER -> Response(t, msg, 500, msg)

----------------------------------------------------------------------------
(* POST /register: controllers register -> AuthService.registerUser *)

\* Mutant of AuthService.validateRegistrationData: the password length is
\* tested before the email format
validateRegistrationDataPasswordFirst(full_name, email, password) ==
    IF IsBlank(full_name) \/ IsBlank(email) \/ IsBlank(password)
    THEN "ALL_FIELDS_REQUIRED"
    ELSE IF Len(password) < MinPasswordLen
    THEN "PASSWORD_TOO_SHORT"
    ELSE IF ~EmailFormatOK(email)
    THEN "INVALID_EMAIL_FORMAT"
    ELSE "OK"

\* AuthService.validateRegistrationData: the error it throws, or "OK"
validateRegistrationData(full_name, email, password) ==
    IF IsBlank(full_name) \/ IsBlank(email) \/ IsBlank(password)
    THEN "ALL_FIELDS_REQUIRED"
    ELSE IF ~EmailFormatOK(email)
    THEN "INVALID_EMAIL_FORMAT"
    ELSE IF Len(password) < MinPasswordLen
    THEN "PASSWORD_TOO_SHORT"
    ELSE "OK"

RegisterStart(i, full_name, email, password) ==
    /\ CanStart(i)
    /\ nextUserId + InFlight("register") <= MaxUsers
    /\ LET t == [IdleTask EXCEPT !.op = "register", !.pc = "reg_validate",
                                 !.full_name = full_name, !.email = email,
                                 !.password = password]
           v == validateRegistrationData(full_name, email, password)
       IN  IF v # "OK"
           THEN Finish(i, RegisterError(t, v))
           ELSE Accept(i, [t EXCEPT !.pc = "reg_emailExists"])
    /\ UNCHANGED <<secret, Tables, Clock, Ghosts>>

\* if (await User.emailExists(userData.email)) throw EMAIL_EXISTS; then bcryptjs.hash
RegisterEmailExists(i) ==
    /\ tasks[i].pc = "reg_emailExists"
    /\ LET t == tasks[i]
       IN  IF emailExists(t.email)
           THEN Finish(i, RegisterError(t, "EMAIL_EXISTS"))
           ELSE Goto(i, [t EXCEPT !.pc = "reg_create", !.hash = bcryptHash(t.password)])
    /\ UNCHANGED <<secret, Tables, Clock, Ghosts>>

\* User.create({...userData, password: hashedPassword}); res.status(201)
RegisterCreate(i) ==
    /\ tasks[i].pc = "reg_create"
    /\ LET t == tasks[i]
       IN  /\ users' = UserCreate(t.email, t.full_name, t.hash)
           /\ nextUserId' = nextUserId + 1
           /\ Finish(i, [Response(t, "OK", 201, "null") EXCEPT
                           !.user = [id |-> nextUserId, full_name |-> t.full_name,
                                     email |-> t.email]])
    /\ UNCHANGED <<secret, whitelist, nextWlId, Clock, Ghosts>>

----------------------------------------------------------------------------
(* POST /login: controllers login -> AuthService.loginUser *)

\* Mutant of WhitelistService.validateInsertionData: the test of expires_at is
\* inverted
validateInsertionDataInverted(user_id, refresh_token, expires_at) ==
    IF user_id = 0 \/ refresh_token = NoTok \/ expires_at # NoDate
    THEN "ALL_FIELDS_REQUIRED"
    ELSE "OK"

\* WhitelistService.validateInsertionData: the error it throws, or "OK"
validateInsertionData(user_id, refresh_token, expires_at) ==
    IF user_id = 0 \/ refresh_token = NoTok \/ expires_at = NoDate
    THEN "ALL_FIELDS_REQUIRED"
    ELSE "OK"

\* Mutant of loginUser: the test of the two fields is missing, so every request
\* goes on to User.userExistByEmail
LoginStartUnvalidated(i, email, password) ==
    /\ CanStart(i)
    /\ nextWlId + InFlight("login") <= MaxRows
    /\ LET t == [IdleTask EXCEPT !.op = "login", !.pc = "login_validate",
                                 !.email = email, !.password = password]
       IN  Accept(i, [t EXCEPT !.pc = "login_findUser"])
    /\ UNCHANGED <<secret, Tables, Clock, Ghosts>>

\* loginUser: if (!email || !password) throw ALL_FIELDS_REQUIRED
LoginStart(i, email, password) ==
    /\ CanStart(i)
    /\ nextWlId + InFlight("login") <= MaxRows
    /\ LET t == [IdleTask EXCEPT !.op = "login", !.pc = "login_validate",
                                 !.email = email, !.password = password]
       IN  IF IsEmpty(email) \/ IsEmpty(password)
           THEN Finish(i, LoginError(t, "ALL_FIELDS_REQUIRED"))
           ELSE Accept(i, [t EXCEPT !.pc = "login_findUser"])
    /\ UNCHANGED <<secret, Tables, Clock, Ghosts>>

\* Mutant of loginUser: the access token is signed for the id of the request
\* body, which a login does not carry, instead of the id of the row found
LoginMintRequestId(t, u) ==
    [t EXCEPT !.user_id = u.id,
              !.access_token = jwtSign(t.user_id, AccessTTL),
              !.refresh_token = jwtSign(u.id, RefreshTTL),
              !.expires_at = expiryFromDays(RefreshDays)]

\* The tokens loginUser mints for user row u, and the insertion data it builds
LoginMint(t, u) ==
    [t EXCEPT !.user_id = u.id,
              !.access_token = jwtSign(u.id, AccessTTL),
              !.refresh_token = jwtSign(u.id, RefreshTTL),
              !.expires_at = expiryFromDays(RefreshDays)]

\* Mutant of loginUser: an unknown email throws an error of its own
LoginFindUserRevealing(i) ==
    /\ tasks[i].pc = "login_findUser"
    /\ LET t == tasks[i]
           rows == userExistByEmail(t.email)
       IN  IF rows = {}
           THEN Finish(i, LoginError(t, "USER_NOT_FOUND"))
           ELSE \E u \in rows :
                  IF ~bcryptCompare(t.password, u.password)
                  THEN Finish(i, LoginError(t, "INVALID_CREDENTIALS"))
                  ELSE Goto(i, [LoginMint(t, u) EXCEPT !.pc = "login_userExists"])
    /\ UNCHANGED <<secret, Tables, Clock, Ghosts>>

\* User.userExistByEmail; bcryptjs.compare; jwt.sign twice; validateInsertionData
LoginFindUser(i) ==
    /\ tasks[i].pc = "login_findUser"
    /\ LET t == tasks[i]
           rows == userExistByEmail(t.email)
       IN  IF rows = {}
           THEN Finish(i, LoginError(t, "INVALID_CREDENTIALS"))
           ELSE \E u \in rows :
                  IF ~bcryptCompare(t.password, u.password)
                  THEN Finish(i, LoginError(t, "INVALID_CREDENTIALS"))
                  ELSE IF secret = NoSecret
                  THEN Finish(i, LoginError(t, jwtSignError))
                  ELSE LET m == LoginMint(t, u)
                           v == validateInsertionData(m.user_id, m.refresh_token,
                                                      m.expires_at)
                       IN  IF v # "OK"
                           THEN Finish(i, LoginError([m EXCEPT !.pc = "login_validateInsertion"], v))
                           ELSE Goto(i, [m EXCEPT !.pc = "login_userExists"])
    /\ UNCHANGED <<secret, Tables, Clock, Ghosts>>

\* WhitelistService.insertRefreshToken: if (!(await User.userExistByUserId(...))) throw
LoginUserExists(i) ==
    /\ tasks[i].pc = "login_userExists"
    /\ LET t == tasks[i]
       IN  IF ~userExistByUserId(t.user_id)
           THEN Finish(i, LoginError(t, "USER_ID_DOES_NOT_BELONG_TO_ANY_ACCOUNT"))
           ELSE Goto(i, [t EXCEPT !.pc = "login_insert"])
    /\ UNCHANGED <<secret, Tables, Clock, Ghosts>>

\* The 200 response of login
LoginOK(t) ==
    [Response(t, "OK", 200, "null") EXCEPT !.access_token = t.access_token,
                                           !.refresh_token = t.refresh_token]

\* Whitelist.create(data); return { accessToken, refreshToken }; res.status(200)
LoginInsert(i) ==
    /\ tasks[i].pc = "login_insert"
    /\ LET t == tasks[i]
       IN  /\ whitelist' = WhitelistCreate(t.user_id, t.refresh_token, t.expires_at)
           /\ nextWlId' = nextWlId + 1
           /\ outstanding' = outstanding \cup
                  {[user_id |-> t.user_id, refresh_token |-> t.refresh_token]}
           /\ Finish(i, LoginOK(t))
    /\ UNCHANGED <<secret, users, nextUserId, Clock, revoked>>

----------------------------------------------------------------------------
(* POST /logout: controllers logout -> AuthService.logoutUser *)

ForgedTok == [id |-> 1, iat |-> 0, exp |-> RefreshTTL, sig |-> "forged"]

\* The refresh tokens some login has returned to a caller
KnownTokens == {p.refresh_token : p \in outstanding \cup revoked}

\* Request bodies of POST /logout: <<user_id, refresh_token>>
LogoutInputs ==
    {<<u, tok>> : u \in 1..MaxUsers, tok \in KnownTokens \cup {ForgedTok}}
        \cup {<<0, ForgedTok>>, <<1, NoTok>>}

LogoutStart(i, user_id, refresh_token) ==
    /\ CanStart(i)
    /\ LET t == [IdleTask EXCEPT !.op = "logout", !.pc = "logout_validate",
                                 !.user_id = user_id, !.refresh_token = refresh_token]
       IN  IF refresh_token = NoTok \/ user_id = 0
           THEN Finish(i, LogoutError(t, "LOGOUT_FIELDS_REQUIRED"))
           ELSE Accept(i, [t EXCEPT !.pc = "logout_check"])
    /\ UNCHANGED <<secret, Tables, Clock, Ghosts>>

\* Mutant of logout's existence check: the error of a pair that is not
\* whitelisted is caught and dropped, and no response is sent
LogoutCheckUnanswered(i) ==
    /\ tasks[i].pc = "logout_check"
    /\ LET t == tasks[i]
       IN  IF ~doesRefreshTokenExist(t.user_id, t.refresh_token)
           THEN Goto(i, [t EXCEPT !.pc = "logout_unanswered"])
           ELSE Goto(i, [t EXCEPT !.pc = "logout_delete"])
    /\ UNCHANGED <<secret, Tables, Clock, Ghosts>>

\* WhitelistService.checkRefreshTokenExistence: doesRefreshTokenExist, throw if not
LogoutCheck(i) ==
    /\ tasks[i].pc = "logout_check"
    /\ LET t == tasks[i]
       IN  IF ~doesRefreshTokenExist(t.user_id, t.refresh_token)
           THEN Finish(i, LogoutError(t, "REFRESH_TOKEN_DOES_EXIST_FOR_THIS_USER"))
           ELSE Goto(i, [t EXCEPT !.pc = "logout_delete"])
    /\ UNCHANGED <<secret, Tables, Clock, Ghosts>>

\* WhitelistService.deleteRefreshToken: await Whitelist.delete(...), result dropped;
\* logoutUser returns { user_id, refresh_token }
LogoutDelete(i) ==
    /\ tasks[i].pc = "logout_delete"
    /\ LET t == tasks[i]
           pair == [user_id |-> t.user_id, refresh_token |-> t.refresh_token]
       IN  /\ whitelist' = WhitelistDelete(t.user_id, t.refresh_token)
           /\ outstanding' = outstanding \ {pair}
           /\ revoked' = revoked \cup {pair}
           /\ Goto(i, [t EXCEPT !.pc = "logout_fetchUser",
                                !.affected = Cardinality(WhitelistMatch(t.user_id,
                                                                        t.refresh_token))])
    /\ UNCHANGED <<secret, users, nextUserId, nextWlId, Clock>>

\* Mutant of logout's last step: it also deletes the user's remaining rows
LogoutFetchUserPurging(i) ==
    /\ tasks[i].pc = "logout_fetchUser"
    /\ LET t == tasks[i]
       IN  /\ whitelist' = {w \in whitelist : w.user_id # t.user_id}
           /\ Finish(i, [Response(t, "OK", 200, "null") EXCEPT
                            !.user = fetchUserInformationByUserId(t.user_id),
                            !.refresh_token = t.refresh_token])
    /\ UNCHANGED <<secret, users, nextUserId, nextWlId, Clock, Ghosts>>

\* res.status(200).json({ data: { user_id: await User.fetchUserInformationByUserId(user_id),
\*                                refresh_token } })
LogoutFetchUser(i) ==
    /\ tasks[i].pc = "logout_fetchUser"
    /\ LET t == tasks[i]
       IN  Finish(i, [Response(t, "OK", 200, "null") EXCEPT
                        !.user = fetchUserInformationByUserId(t.user_id),
                        !.refresh_token = t.refresh_token])
    /\ UNCHANGED <<secret, Tables, Clock, Ghosts>>

----------------------------------------------------------------------------
(* GET /api/users/details: authenticateToken, then usersDetails *)

\* The access token loginUser mints in the same second as refresh token rt
AccessTokenOf(rt) == [rt EXCEPT !.exp = rt.iat + AccessTTL]

\* The access tokens some login has returned to a caller
IssuedAccessTokens == {AccessTokenOf(rt) : rt \in KnownTokens}

\* Bearer tokens of the Authorization header; NoTok is a missing header
DetailsInputs == IssuedAccessTokens \cup KnownTokens \cup {ForgedTok, NoTok}

\* Mutant of authenticateToken: a token is also refused once the whitelist holds
\* no row of the same login (user id and second of issue)
authenticateTokenWhitelisted(token) ==
    IF token = NoTok
    THEN "MISSING"
    ELSE IF jwtVerify(token) # "OK"
    THEN jwtVerify(token)
    ELSE IF ~\E w \in whitelist : w.user_id = token.id /\ w.refresh_token.iat = token.iat
    THEN "JsonWebTokenError"
    ELSE "OK"

\* authenticateToken: "MISSING" without a token, else the outcome of jwt.verify
authenticateToken(token) ==
    IF token = NoTok
    THEN "MISSING"
    ELSE jwtVerify(token)

\* Mutant of authenticateToken's catch: the case of TokenExpiredError is missing
AuthenticateErrorNoExpiredCase(t, outcome) ==
    CASE outcome = "MISSING" ->
            Response(t, outcome, 401, "Access token is missing")
      [] outcome = "JsonWebTokenError" ->
            Response(t, outcome, 403, "Invalid token signature")
      [] OTHER -> Response(t, outcome, 403, "Invalid token")

\* authenticateToken: the 401 / 403 response of a refused request
AuthenticateError(t, outcome) ==
    CASE outcome = "MISSING" ->
            Response(t, outcome, 401, "Access token is missing")
      [] outcome = "TokenExpiredError" ->
            Response(t, outcome, 401, "Token has expired")
      [] outcome = "JsonWebTokenError" ->
            Response(t, outcome, 403, "Invalid token signature")
      [] OTHER -> Response(t, outcome, 403, "Invalid token")

\* The middleware runs when the request arrives; req.user = { id: decoded.id }
DetailsStart(i, token) ==
    /\ CanStart(i)
    /\ LET t == [IdleTask EXCEPT !.op = "details", !.pc = "det_authenticate",
                                 !.access_token = token]
           v == authenticateToken(token)
       IN  IF v # "OK"
           THEN Finish(i, [AuthenticateError(t, v) EXCEPT !.token = token])
           ELSE Accept(i, [t EXCEPT !.pc = "det_fetchUser", !.user_id = token.id])
    /\ UNCHANGED <<secret, Tables, Clock, Ghosts>>

\* const userDetails = await User.fetchUserInformationByUserId(req.user.id); 200
DetailsFetchUser(i) ==
    /\ tasks[i].pc = "det_fetchUser"
    /\ LET t == tasks[i]
       IN  Finish(i, [Response(t, "OK", 200, "null") EXCEPT
                        !.token = t.access_token,
                        !.user = fetchUserInformationByUserId(t.user_id)])
    /\ UNCHANGED <<secret, Tables, Clock, Ghosts>>

----------------------------------------------------------------------------
(* PUT /api/users/:id: updateUserById.  An id of 0 stands for a blank :id. *)

UpdateStart(i, user_id, email, full_name) ==
    /\ CanStart(i)
    /\ LET t == [IdleTask EXCEPT !.op = "update", !.pc = "upd_validate",
                                 !.user_id = user_id, !.email = email,
                                 !.full_name = full_name]
       IN  IF user_id = 0
           THEN Finish(i, Response(t, "BAD_ID", 400, "Missing or invalid user ID"))
           ELSE IF IsBlank(email) \/ IsBlank(full_name)
           THEN Finish(i, Response(t, "BAD_BODY", 400,
                                   "Both email and full name are required"))
           ELSE Accept(i, [t EXCEPT !.pc = "upd_emailExists"])
    /\ UNCHANGED <<secret, Tables, Clock, Ghosts>>

\* const emailExists = await User.emailExists(email); if (emailExists) return 400
UpdateEmailExists(i) ==
    /\ tasks[i].pc = "upd_emailExists"
    /\ LET t == tasks[i]
       IN  IF emailExists(t.email)
           THEN Finish(i, Response(t, "EMAIL_TAKEN", 400,
                                   "Email already belongs to another user"))
           ELSE Goto(i, [t EXCEPT !.pc = "upd_userExists"])
    /\ UNCHANGED <<secret, Tables, Clock, Ghosts>>

\* const userExists = await User.userExistByUserId(user_id); if (!userExists) return 404
UpdateUserExists(i) ==
    /\ tasks[i].pc = "upd_userExists"
    /\ LET t == tasks[i]
       IN  IF ~userExistByUserId(t.user_id)
           THEN Finish(i, Response(t, "NOT_FOUND", 404, "User not found"))
           ELSE Goto(i, [t EXCEPT !.pc = "upd_update"])
    /\ UNCHANGED <<secret, Tables, Clock, Ghosts>>

\* const response = await User.updateUser({ user_id, email, full_name }); return 200
UpdateUser(i) ==
    /\ tasks[i].pc = "upd_update"
    /\ LET t == tasks[i]
       IN  /\ users' = updateUser(t.user_id, t.email, t.full_name)
           /\ Finish(i, [Response(t, "OK", 200, "null") EXCEPT
                           !.user = IF userExistByUserId(t.user_id)
                                    THEN [id |-> t.user_id, full_name |-> t.full_name,
                                          email |-> t.email]
                                    ELSE NoUser])
    /\ UNCHANGED <<secret, nextUserId, whitelist, nextWlId, Clock, Ghosts>>

----------------------------------------------------------------------------
(* DELETE /api/users/:id: deleteUserById.  An id of 0 stands for a blank :id. *)

DeleteStart(i, user_id) ==
    /\ CanStart(i)
    /\ LET t == [IdleTask EXCEPT !.op = "delete", !.pc = "del_validate",
                                 !.user_id = user_id]
       IN  IF user_id = 0
           THEN Finish(i, Response(t, "BAD_ID", 400, "Missing or invalid user ID"))
           ELSE Accept(i, [t EXCEPT !.pc = "del_fetchUser"])
    /\ UNCHANGED <<secret, Tables, Clock, Ghosts>>

\* const user = await User.fetchUserInformationByUserId(user_id); if (!user) return 404
DeleteFetchUser(i) ==
    /\ tasks[i].pc = "del_fetchUser"
    /\ LET t == tasks[i]
       IN  IF fetchUserInformationByUserId(t.user_id) = NoUser
           THEN Finish(i, Response(t, "NOT_FOUND", 404,
                                   "No user exists with the given ID"))
           ELSE Goto(i, [t EXCEPT !.pc = "del_delete"])
    /\ UNCHANGED <<secret, Tables, Clock, Ghosts>>

\* const response = await User.deleteUser(user_id); return 200
DeleteUser(i) ==
    /\ tasks[i].pc = "del_delete"
    /\ LET t == tasks[i]
       IN  /\ users' = deleteUser(t.user_id)
           /\ Finish(i, Response(t, "OK", 200, "null"))
    /\ UNCHANGED <<secret, nextUserId, whitelist, nextWlId, Clock, Ghosts>>

----------------------------------------------------------------------------
(* A storage call that fails: pool.query rejects and the error propagates to  *)
(* the controller's catch block, whose default case answers 500 with the     *)
(* error's message.                                                          *)

\* updateUserById, deleteUserById: catch (err) { return res.status(500) ... }
UserRouteError(t, msg) == Response(t, msg, 500, msg)

StorageFault(i) ==
    /\ ~Free(i)
    /\ LET t == tasks[i]
       IN  CASE t.op = "register" -> Finish(i, RegisterError(t, "STORAGE_FAILURE"))
             [] t.op = "login" -> Finish(i, LoginError(t, "STORAGE_FAILURE"))
             [] t.op = "logout" -> Finish(i, LogoutError(t, "STORAGE_FAILURE"))
             [] OTHER -> Finish(i, UserRouteError(t, "STORAGE_FAILURE"))
    /\ UNCHANGED <<secret, Tables, Clock, Ghosts>>

----------------------------------------------------------------------------
(* The clock *)

\* Mutant of the clock: a sweep removes the whitelist rows whose expires_at has
\* passed
TickSweeping(d) ==
    /\ ticks < MaxTicks
    /\ now' = now + d
    /\ ticks' = ticks + 1
    /\ whitelist' = {w \in whitelist :
                        ~DatetimeBefore(w.expires_at, MySQLDatetime(now + d + TzOffset))}
    /\ UNCHANGED <<secret, users, nextUserId, nextWlId, tasks, last, Ghosts>>

\* Time passes by d seconds; nothing in the program runs on a timer
Tick(d) ==
    /\ ticks < MaxTicks
    /\ now' = now + d
    /\ ticks' = ticks + 1
    /\ UNCHANGED <<secret, Tables, tasks, last, Ghosts>>

----------------------------------------------------------------------------
(* Specifications *)

\* Empty tables, no request in flight
InitState ==
    /\ users = {}
    /\ nextUserId = 1
    /\ whitelist = {}
    /\ nextWlId = 1
    /\ now = 0
    /\ ticks = 0
    /\ tasks = [i \in Tasks |-> IdleTask]
    /\ last = NoResponse
    /\ outstanding = {}
    /\ revoked = {}

\* The process started with JWT_SECRET set
Init == InitState /\ secret = EnvSecret

\* The process started, with JWT_SECRET set or unset: app.js and authService.js
\* read the environment and start listening without a test of the secret
InitEnv == InitState /\ secret \in Secrets

\* The steps of POST /register, /login and /logout by the tasks in S
AuthSteps(S) ==
    \/ \E i \in S, r \in RegisterInputs : RegisterStart(i, r[1], r[2], r[3])
    \/ \E i \in S : RegisterEmailExists(i)
    \/ \E i \in S : RegisterCreate(i)
    \/ \E i \in S, r \in LoginInputs : LoginStart(i, r[1], r[2])
    \/ \E i \in S : LoginFindUser(i)
    \/ \E i \in S : LoginUserExists(i)
    \/ \E i \in S : LoginInsert(i)
    \/ \E i \in S, r \in LogoutInputs : LogoutStart(i, r[1], r[2])
    \/ \E i \in S : LogoutCheck(i)
    \/ \E i \in S : LogoutDelete(i)
    \/ \E i \in S : LogoutFetchUser(i)

\* The steps of PUT /api/users/:id by the tasks in S
UpdateSteps(S) ==
    \/ \E i \in S, r \in UpdateInputs : UpdateStart(i, r[1], r[2], r[3])
    \/ \E i \in S : UpdateEmailExists(i)
    \/ \E i \in S : UpdateUserExists(i)
    \/ \E i \in S : UpdateUser(i)

\* The steps of DELETE /api/users/:id by the tasks in S
DeleteSteps(S) ==
    \/ \E i \in S, u \in 0..MaxUsers : DeleteStart(i, u)
    \/ \E i \in S : DeleteFetchUser(i)
    \/ \E i \in S : DeleteUser(i)

UserSteps(S) == UpdateSteps(S) \/ DeleteSteps(S)

\* The steps of GET /api/users/details by the tasks in S
DetailsSteps(S) ==
    \/ \E i \in S, tok \in DetailsInputs : DetailsStart(i, tok)
    \/ \E i \in S : DetailsFetchUser(i)

ClockNext == \E d \in TickSteps : Tick(d)

\* Concurrent register, login and logout requests while time passes
Next == AuthSteps(Tasks) \/ ClockNext

Spec == Init /\ [][Next]_vars

\* Concurrent requests of all five routes, within one clock second
NextAdmin == AuthSteps(Tasks) \/ UserSteps(Tasks)

SpecAdmin == Init /\ [][NextAdmin]_vars

\* Concurrent register, login, logout and user deletion requests over storage
\* whose calls may fail
NextFault == AuthSteps(Tasks) \/ DeleteSteps(Tasks) \/ \E i \in Tasks : StorageFault(i)

SpecFault == Init /\ [][NextFault]_vars

\* Requests of all five routes served one after the other (a single task slot)
\* while time passes
NextSeq == AuthSteps({1}) \/ UserSteps({1}) \/ ClockNext

SpecSeq == Init /\ [][NextSeq]_vars

\* Concurrent register, login, logout and authenticated requests while time passes
NextDetails == AuthSteps(Tasks) \/ DetailsSteps(Tasks) \/ ClockNext

SpecDetails == Init /\ [][NextDetails]_vars

\* Register, login, logout and authenticated requests served one after the
\* other by a process started with or without JWT_SECRET
NextEnv == AuthSteps({1}) \/ DetailsSteps({1}) \/ ClockNext

SpecEnv == InitEnv /\ [][NextEnv]_vars

\* Register, login, logout, user deletion and authenticated requests served one
\* after the other, within one clock second
NextAccount == AuthSteps({1}) \/ DeleteSteps({1}) \/ DetailsSteps({1})

SpecAccount == Init /\ [][NextAccount]_vars

\* The step of task i that runs when the storage call it awaits has returned
Continue(i) ==
    \/ RegisterEmailExists(i)
    \/ RegisterCreate(i)
    \/ LoginFindUser(i)
    \/ LoginUserExists(i)
    \/ LoginInsert(i)
    \/ LogoutCheck(i)
    \/ LogoutDelete(i)
    \/ LogoutFetchUser(i)

\* Concurrent register, login and logout requests, within one clock second,
\* over storage whose calls may fail
NextLive == AuthSteps(Tasks) \/ \E i \in Tasks : StorageFault(i)

\* Every storage call returns unless it fails: the continuation of a request
\* that awaits a call is not postponed forever
SpecLive == Init /\ [][NextLive]_vars /\ \A i \in Tasks : WF_vars(Continue(i))

----------------------------------------------------------------------------
(* Properties *)

NotWhitelisted == "REFRESH_TOKEN_DOES_EXIST_FOR_THIS_USER"

PairOf(t) == [user_id |-> t.user_id, refresh_token |-> t.refresh_token]

\* The whitelist table holds a row with exactly the pair p
HasEntry(p) ==
    \E w \in whitelist : w.user_id = p.user_id /\ w.refresh_token = p.refresh_token

\* C1 (SpecSeq): in a sequential run, a logout(u, t) whose pair a login has
\* returned and no logout has revoked since passes the existence check, its
\* delete step returns success and leaves no row for (u, t); a logout(u, t)
\* issued after that revocation, before any login returns t again, fails
\* with REFRESH_TOKEN_DOES_EXIST_FOR_THIS_USER (401).
C1_LogoutSucceedsOnce ==
    [][\A i \in Tasks :
        LET t == tasks[i]
            p == PairOf(t)
        IN  /\ (t.pc = "logout_check" /\ tasks'[i] # t /\ p \in outstanding)
                  => tasks'[i].pc = "logout_delete"
            /\ (t.pc = "logout_delete" /\ tasks'[i] # t)
                  => /\ tasks'[i].pc = "logout_fetchUser"
                     /\ \A w \in whitelist' :
                            ~(w.user_id = p.user_id /\ w.refresh_token = p.refresh_token)
            /\ (t.pc = "logout_check" /\ tasks'[i] # t /\ p \in revoked \ outstanding)
                  => /\ tasks'[i] = IdleTask
                     /\ last'.op = "logout"
                     /\ last'.svc = NotWhitelisted
                     /\ last'.status = 401]_vars

\* C1 witness: a second logout of a revoked pair has just failed
C1_Witness ==
    /\ last.op = "logout"
    /\ last.svc = NotWhitelisted
    /\ [user_id |-> last.user_id, refresh_token |-> last.token] \in revoked \ outstanding

\* C2 (Spec): a logout reports success only if its own delete removed a row, so
\* of the concurrent logouts of one whitelist entry at most one succeeds.
C2_SuccessOnlyIfOwnDeleteRemoved ==
    \A i \in Tasks : tasks[i].pc = "logout_fetchUser" => tasks[i].affected >= 1

\* C3 (Spec): when the existence check of logout(u, t) runs while no row with
\* exactly the pair (u, t) exists, the logout fails with
\* REFRESH_TOKEN_DOES_EXIST_FOR_THIS_USER (401) and the whitelist is unchanged,
\* also when t is whitelisted for another user.
C3_LogoutOfAbsentPairFails ==
    [][\A i \in Tasks :
        LET t == tasks[i]
        IN  (t.pc = "logout_check" /\ tasks'[i] # t /\ ~HasEntry(PairOf(t)))
               => /\ tasks'[i] = IdleTask
                  /\ last'.op = "logout"
                  /\ last'.svc = NotWhitelisted
                  /\ last'.status = 401
                  /\ whitelist' = whitelist]_vars

\* C3 witness: a logout failed although its token is whitelisted for another user
C3_Witness ==
    /\ last.op = "logout"
    /\ last.svc = NotWhitelisted
    /\ \E w \in whitelist : w.refresh_token = last.token /\ w.user_id # last.user_id

\* C4 (Spec): every (user_id, refresh_token) pair a successful login has returned
\* and no logout has revoked since has a matching whitelist row.
C4_OutstandingTokensWhitelisted == \A p \in outstanding : HasEntry(p)

\* C4 witness: a user holds an unrevoked token after revoking another one
C4_Witness ==
    \E p \in outstanding : \E q \in revoked :
        p.user_id = q.user_id /\ p # q /\ ~HasEntry(q)

\* C5 (SpecFault): when a login's whitelist insert fails (the user lookup of
\* insertRefreshToken finds no user, or one of its two storage calls fails), the
\* login ends with status 500 carrying that error and returns neither the
\* access token nor the refresh token it minted.
C5_FailedInsertFailsLogin ==
    [][\A i \in Tasks :
        LET t == tasks[i]
        IN  (/\ t.op = "login"
             /\ t.pc \in {"login_userExists", "login_insert"}
             /\ tasks'[i] = IdleTask
             /\ whitelist' = whitelist)
               => /\ last'.op = "login"
                  /\ last'.status = 500
                  /\ last'.svc \in {"STORAGE_FAILURE",
                                    "USER_ID_DOES_NOT_BELONG_TO_ANY_ACCOUNT"}
                  /\ last'.error = last'.svc
                  /\ last'.access_token = NoTok
                  /\ last'.refresh_token = NoTok]_vars

\* C5 witness: the INSERT of a login failed after its tokens were minted
C5_Witness ==
    /\ last.op = "login"
    /\ last.at = "login_insert"
    /\ last.svc = "STORAGE_FAILURE"
    /\ last.token # NoTok

\* C6 (SpecSeq): revocation is terminal: no pair that a logout has revoked is
\* ever in the whitelist again.
C6_RevocationTerminal == \A p \in revoked : ~HasEntry(p)

\* C7 (Spec): the whitelist holds at most one row for any (user_id,
\* refresh_token) pair.
C7_UniquePair ==
    \A v \in whitelist : \A w \in whitelist :
        (v.user_id = w.user_id /\ v.refresh_token = w.refresh_token) => v = w

\* C8 (SpecSeq): each login's refresh token is revocable on its own: a logout
\* removes the whitelist row of one login only, so the row of every other
\* login of the same user stays for its own logout.
C8_IndependentRevocation == [][Cardinality(whitelist \ whitelist') <= 1]_vars

\* C9 (SpecAdmin): every whitelist row's user_id is the id of a row of the user
\* table.
C9_EntriesReferenceUsers ==
    \A w \in whitelist : \E r \in users : r.id = w.user_id

\* C10 (SpecAdmin): no two rows of the user table have the same email.
C10_UniqueEmail ==
    \A q \in users : \A r \in users : q.email = r.email => q = r

\* C11 (SpecAdmin): when the email lookup of a register request (its fields passed
\* validation) runs while some user row has exactly the request's email, the
\* request ends with EMAIL_EXISTS (409) and the user table and its id counter
\* are unchanged.
C11_RegisterExistingEmailFails ==
    [][\A i \in Tasks :
        LET t == tasks[i]
        IN  (/\ t.pc = "reg_emailExists"
             /\ tasks'[i] # t
             /\ \E r \in users : r.email = t.email)
               => /\ tasks'[i] = IdleTask
                  /\ last'.op = "register"
                  /\ last'.svc = "EMAIL_EXISTS"
                  /\ last'.status = 409
                  /\ last'.user = NoUser
                  /\ users' = users
                  /\ nextUserId' = nextUserId]_vars

\* C11 witness: a register was refused for its email while a user is stored
C11_Witness ==
    /\ last.op = "register"
    /\ last.at = "reg_emailExists"
    /\ last.svc = "EMAIL_EXISTS"
    /\ users # {}

\* The response of a login refused for its credentials
InvalidCredentialsResponse ==
    [NoResponse EXCEPT !.op = "login", !.at = "login_findUser",
                       !.svc = "INVALID_CREDENTIALS", !.status = 401,
                       !.error = "Invalid email or password"]

\* C12 (Spec): a login whose user lookup finds no row with its email, and a login
\* whose email is stored but whose password matches no such row, both end with
\* one and the same response (INVALID_CREDENTIALS, 401, "Invalid email or
\* password", no data) and leave the user and whitelist tables unchanged.
C12_InvalidCredentialsIndistinguishable ==
    [][\A i \in Tasks :
        LET t == tasks[i]
        IN  (/\ t.pc = "login_findUser"
             /\ tasks'[i] # t
             /\ \A u \in users : u.email = t.email => ~bcryptCompare(t.password, u.password))
               => /\ tasks'[i] = IdleTask
                  /\ last' = InvalidCredentialsResponse
                  /\ UNCHANGED Tables]_vars

\* C12 witness: a login was refused for its credentials while every email of the
\* login inputs is stored, so its password was the wrong one
C12_Witness ==
    /\ last = InvalidCredentialsResponse
    /\ {r.email : r \in users} = Emails

\* The user rows a login with the credentials of task record t authenticates as
Authenticates(t) ==
    {u \in users : u.email = t.email /\ bcryptCompare(t.password, u.password)}

\* C13 (SpecSeq): in a sequential run, a register whose fields passed validation
\* and whose email was not stored answers 201 and stores a row with its email
\* and a hash its password matches; a login whose email is stored only with
\* rows its password matches then passes the credential check and the user
\* lookup of the whitelist insert, and answers 200 with an access token and a
\* refresh token that differ from each other.
C13_RegisterThenLoginSucceeds ==
    [][\A i \in Tasks :
        LET t == tasks[i]
        IN  /\ (t.pc = "reg_emailExists" /\ tasks'[i] # t
                    /\ ~\E r \in users : r.email = t.email)
                  => tasks'[i].pc = "reg_create"
            /\ (t.pc = "reg_create" /\ tasks'[i] # t)
                  => /\ last'.op = "register"
                     /\ last'.status = 201
                     /\ \E r \in users' \ users :
                            /\ r.id = last'.user.id
                            /\ r.email = t.email
                            /\ bcryptCompare(t.password, r.password)
            /\ (t.pc = "login_findUser" /\ tasks'[i] # t
                    /\ Authenticates(t) # {}
                    /\ \A u \in users : u.email = t.email => u \in Authenticates(t))
                  => /\ tasks'[i].pc = "login_userExists"
                     /\ \E u \in Authenticates(t) : tasks'[i].user_id = u.id
            /\ (t.pc = "login_userExists" /\ tasks'[i] # t)
                  => tasks'[i].pc = "login_insert"
            /\ (t.pc = "login_insert" /\ tasks'[i] # t)
                  => /\ last'.op = "login"
                     /\ last'.status = 200
                     /\ last'.access_token # NoTok
                     /\ last'.refresh_token # NoTok
                     /\ last'.access_token # last'.refresh_token]_vars

\* C13 witness: a login of a registered user has returned two different tokens
C13_Witness ==
    /\ last.op = "login"
    /\ last.status = 200
    /\ last.access_token # last.refresh_token
    /\ \E r \in users : r.id = last.user_id /\ r.id = last.access_token.id

\* C14 (SpecDetails): the access token a login returns carries the authenticated
\* user's id and expires 15 minutes after its issue; authenticateToken refuses
\* such a token only from the second of its expiry on, whatever the whitelist
\* holds, and an accepted request resolves to the id the token carries.
C14_AccessTokenValidUntilExpiry ==
    [][/\ \A i \in Tasks :
            (tasks[i].pc = "login_insert" /\ tasks'[i] # tasks[i])
               => /\ last'.access_token = AccessTokenOf(last'.refresh_token)
                  /\ last'.access_token.id = last'.user_id
                  /\ last'.access_token.exp = last'.access_token.iat + AccessTTL
       /\ (/\ last' # last
           /\ last'.op = "details"
           /\ last'.at = "det_authenticate"
           /\ last'.token \in IssuedAccessTokens)
              => /\ now >= last'.token.exp
                 /\ last'.svc = "TokenExpiredError"
                 /\ last'.status = 401
       /\ \A i \in Tasks :
            (tasks[i].pc = "idle" /\ tasks'[i].op = "details")
               => /\ tasks'[i].pc = "det_fetchUser"
                  /\ tasks'[i].user_id = tasks'[i].access_token.id]_vars

\* C14 witness: a request was authenticated by the access token of a login whose
\* refresh token a logout has revoked, while the whitelist is empty
C14_Witness ==
    /\ last.op = "details"
    /\ last.status = 200
    /\ whitelist = {}
    /\ \E p \in revoked \ outstanding :
          /\ last.token = AccessTokenOf(p.refresh_token)
          /\ last.user_id = p.user_id

\* The rows of task record t's (user_id, refresh_token) pair whose expires_at
\* lies in the past
ExpiredRows(t) ==
    {w \in WhitelistMatch(t.user_id, t.refresh_token) :
        DatetimeBefore(w.expires_at, DatetimeNow)}

\* C15 (Spec): a logout(u, t) whose existence check runs while a row of (u, t) is
\* stored with expires_at in the past passes the check; its delete removes
\* every such row; and a logout of a token past its expiry that got as far as
\* its delete answers 200.
C15_ExpiredEntryStillLogsOut ==
    [][\A i \in Tasks :
        LET t == tasks[i]
        IN  /\ (t.pc = "logout_check" /\ tasks'[i] # t /\ ExpiredRows(t) # {})
                  => tasks'[i].pc = "logout_delete"
            /\ (t.pc = "logout_delete" /\ tasks'[i] # t /\ ExpiredRows(t) # {})
                  => /\ tasks'[i].pc = "logout_fetchUser"
                     /\ tasks'[i].affected >= 1
                     /\ whitelist' = whitelist \ WhitelistMatch(t.user_id, t.refresh_token)
            /\ (t.pc = "logout_fetchUser" /\ tasks'[i] # t /\ now > t.refresh_token.exp)
                  => /\ last'.op = "logout"
                     /\ last'.status = 200
                     /\ last'.refresh_token = t.refresh_token]_vars

\* C15 witness: a logout has removed a row after its expiry and answered 200
C15_Witness ==
    /\ last.op = "logout"
    /\ last.status = 200
    /\ last.affected >= 1
    /\ now > last.token.exp
    /\ ~HasEntry([user_id |-> last.user_id, refresh_token |-> last.token])

\* C16 (SpecFault): no step of a login request changes the user table; the step
\* that answers 200 adds exactly one whitelist row, whose user_id is the id of
\* the user row the credentials matched and whose refresh_token is the one
\* returned, and keeps every other row; every other step of a login, those
\* that end it in failure included, leaves the whitelist unchanged.
C16_LoginFrame ==
    [][/\ \A i \in Tasks :
            LET t == tasks[i]
            IN  /\ (t.op = "login" /\ tasks'[i] # t)
                      => /\ users' = users
                         /\ nextUserId' = nextUserId
                         /\ IF tasks'[i] = IdleTask /\ last'.status = 200
                            THEN \E w \in whitelist' \ whitelist :
                                    /\ whitelist' = whitelist \cup {w}
                                    /\ w.user_id = t.user_id
                                    /\ w.refresh_token = last'.refresh_token
                                    /\ last'.refresh_token # NoTok
                            ELSE whitelist' = whitelist /\ nextWlId' = nextWlId
                /\ (t.pc = "login_findUser" /\ tasks'[i].pc = "login_userExists")
                      => \E u \in Authenticates(t) : tasks'[i].user_id = u.id
                /\ (t.pc = "idle" /\ tasks'[i].op = "login") => UNCHANGED Tables
       /\ (tasks' = tasks /\ last' # last /\ last'.op = "login") => UNCHANGED Tables]_vars

\* C16 witness: a login has answered 200 and its row stands next to an older one
C16_Witness ==
    /\ last.op = "login"
    /\ last.status = 200
    /\ \E w \in whitelist :
          /\ w.user_id = last.user_id
          /\ w.refresh_token = last.refresh_token
          /\ w.id = nextWlId - 1
          /\ \E v \in whitelist : v.id < w.id

AuthOps == {"register", "login", "logout"}

\* C17 (SpecFault): the step of a register, login or logout request in which a
\* storage call fails (the step sends a response whose service outcome is the
\* storage error) ends the request at that call: it answers 500 with the
\* storage error as its error and no data, the tables are unchanged, and the
\* request makes no further step.
C17_StorageFailurePropagates ==
    [][\A i \in Tasks :
        LET t == tasks[i]
        IN  (/\ t.op \in AuthOps
             /\ tasks'[i] # t
             /\ last'.svc = "STORAGE_FAILURE"
             /\ (last' # last \/ tasks'[i] = IdleTask))
               => /\ tasks'[i] = IdleTask
                  /\ last'.op = t.op
                  /\ last'.at = t.pc
                  /\ last'.status = 500
                  /\ last'.error = "STORAGE_FAILURE"
                  /\ last'.access_token = NoTok
                  /\ last'.refresh_token = NoTok
                  /\ last'.user = NoUser
                  /\ UNCHANGED Tables
                  /\ \A j \in Tasks \ {i} : tasks'[j] = tasks[j]]_vars

\* C17 witness: the INSERT of a register failed and no user row was stored
C17_Witness ==
    /\ last.op = "register"
    /\ last.at = "reg_create"
    /\ last.svc = "STORAGE_FAILURE"
    /\ last.status = 500
    /\ users = {}

\* C18 (Spec): a register request changes storage only in its last step, by at
\* most one user insert; a login only in its last step, by at most one
\* whitelist insert; a logout only in its delete step, by at most one whitelist
\* delete, after which it only reads.  So each request mutates storage at most once, and at each of its
\* suspension points the tables hold what they held before it or what they
\* hold after it.
C18_SingleMutation ==
    [][\A i \in Tasks :
        LET t == tasks[i]
        IN  (t.op \in AuthOps /\ tasks'[i] # t)
               => CASE t.pc = "reg_create" ->
                         /\ \/ users' = users
                            \/ \E r \in users' \ users : users' = users \cup {r}
                         /\ whitelist' = whitelist
                         /\ tasks'[i] = IdleTask
                    [] t.pc = "login_insert" ->
                         /\ \/ whitelist' = whitelist
                            \/ \E w \in whitelist' \ whitelist : whitelist' = whitelist \cup {w}
                         /\ users' = users
                         /\ tasks'[i] = IdleTask
                    [] t.pc = "logout_delete" ->
                         /\ \/ whitelist' = whitelist
                            \/ whitelist' = whitelist \ WhitelistMatch(t.user_id, t.refresh_token)
                         /\ users' = users
                         /\ tasks'[i].pc \in {"logout_fetchUser", "idle"}
                    [] OTHER -> UNCHANGED Tables]_vars

\* C18 witness: a logout is suspended after its delete, before its response, and
\* the whitelist already is what it is after the logout
C18_Witness ==
    \E i \in Tasks :
        /\ tasks[i].pc = "logout_fetchUser"
        /\ tasks[i].affected >= 1
        /\ ~HasEntry(PairOf(tasks[i]))
        /\ whitelist # {}

\* C19 (SpecEnv): a process started without a signing secret serves no request:
\* it accepts none and sends no response.
C19_NoServiceWithoutSecret ==
    secret = NoSecret => (last = NoResponse /\ \A i \in Tasks : tasks[i] = IdleTask)

\* The outcomes of logoutUser that the controller does not answer with 500
LogoutOutcomes == {"OK", "LOGOUT_FIELDS_REQUIRED", NotWhitelisted}

\* The part of C20 about status codes: 400 exactly for a missing field, 401
\* exactly for a pair that is not whitelisted, 500 for every other failure, 200
\* for success with the submitted refresh_token in the body
LogoutStatusCodes ==
    last.op = "logout"
       => /\ last.status \in {200, 400, 401, 500}
          /\ last.status = 200 <=> last.svc = "OK"
          /\ last.status = 200 => last.refresh_token = last.token
          /\ last.status = 400 <=> (last.user_id = 0 \/ last.token = NoTok)
          /\ last.status = 401 <=> last.svc = NotWhitelisted
          /\ last.status = 500 <=> last.svc \notin LogoutOutcomes

\* C20 (SpecFault): POST /logout answers 200 with the submitted user_id and
\* refresh_token in its body when the revocation succeeds, 400 exactly when a
\* field is missing, 401 exactly when the pair is not whitelisted, and 500 for
\* every other failure.
C20_LogoutResponses ==
    /\ LogoutStatusCodes
    /\ (last.op = "logout" /\ last.status = 200) => last.user.id = last.user_id

\* C21 (SpecFault): POST /login answers 200 with both tokens exactly when
\* loginUser succeeds, 400 exactly when the request ends at the test of its
\* email and password fields, 401 exactly for INVALID_CREDENTIALS, and 500 with
\* the error's message for every other failure, a failed whitelist insert
\* included; no failure returns a token.
C21_LoginResponses ==
    last.op = "login"
       => /\ last.status \in {200, 400, 401, 500}
          /\ last.status = 200 <=> last.svc = "OK"
          /\ IF last.status = 200
             THEN last.access_token # NoTok /\ last.refresh_token # NoTok
             ELSE last.access_token = NoTok /\ last.refresh_token = NoTok
          /\ last.status = 400 <=> last.at = "login_validate"
          /\ last.status = 400 => last.svc = "ALL_FIELDS_REQUIRED"
          /\ last.status = 401 <=> last.svc = "INVALID_CREDENTIALS"
          /\ last.status = 500
                <=> last.svc \notin {"OK", "ALL_FIELDS_REQUIRED", "INVALID_CREDENTIALS"}
          /\ last.status = 500 => last.error = last.svc
          /\ last.at \in {"login_userExists", "login_insert"}
                => last.status \in {200, 500}

\* C21 witness: a login was answered 500 because the user lookup of the whitelist
\* insert found no user
C21_Witness ==
    /\ last.op = "login"
    /\ last.at = "login_userExists"
    /\ last.svc = "USER_ID_DOES_NOT_BELONG_TO_ANY_ACCOUNT"
    /\ last.status = 500

RegisterValidationErrors ==
    {"ALL_FIELDS_REQUIRED", "INVALID_EMAIL_FORMAT", "PASSWORD_TOO_SHORT"}

\* C22 (SpecFault): POST /register answers 201 with the created user (id,
\* full_name, email of a stored row) exactly when registerUser succeeds, 400 for
\* exactly the three validation errors, 409 for exactly EMAIL_EXISTS, and 500
\* with the error's message for every other failure; a failure carries no user.
C22_RegisterResponses ==
    last.op = "register"
       => /\ last.status \in {201, 400, 409, 500}
          /\ last.status = 201 <=> last.svc = "OK"
          /\ last.status = 201
                => /\ last.user # NoUser
                   /\ last.user.id >= 1
                   /\ last.user.id < nextUserId
          /\ last.status # 201 => last.user = NoUser
          /\ last.status = 400 <=> last.svc \in RegisterValidationErrors
          /\ last.status = 409 <=> last.svc = "EMAIL_EXISTS"
          /\ last.status = 500
                <=> last.svc \notin RegisterValidationErrors \cup {"OK", "EMAIL_EXISTS"}
          /\ last.status = 500 => last.error = last.svc

\* C22 witness: a register was answered 409 after another was answered with a
\* stored user
C22_Witness ==
    /\ last.op = "register"
    /\ last.status = 409
    /\ last.svc = "EMAIL_EXISTS"
    /\ nextUserId > 1

\* C23 (SpecDetails): authenticateToken answers 401 when the request carries no
\* token, 403 when the token's signature is not the server's, and 401 when a
\* token with the server's signature is at or past its expiry, and in these
\* cases starts no handler; it passes a request on to the handler, with the id
\* the token carries, only when the token has the server's signature and is
\* before its expiry.
C23_MiddlewareResponses ==
    [][/\ (last' # last /\ last'.op = "details" /\ last'.at = "det_authenticate")
          => /\ tasks' = tasks
             /\ UNCHANGED Tables
             /\ last'.user = NoUser
             /\ CASE last'.token = NoTok ->
                       last'.status = 401 /\ last'.error = "Access token is missing"
                  [] last'.token # NoTok /\ last'.token.sig # "HS256" ->
                       last'.status = 403 /\ last'.error = "Invalid token signature"
                  [] OTHER ->
                       /\ now >= last'.token.exp
                       /\ last'.status = 401
                       /\ last'.error = "Token has expired"
       /\ \A i \in Tasks :
            (tasks[i].pc = "idle" /\ tasks'[i].op = "details")
               => /\ tasks'[i].pc = "det_fetchUser"
                  /\ tasks'[i].access_token.sig = "HS256"
                  /\ now < tasks'[i].access_token.exp
                  /\ tasks'[i].user_id = tasks'[i].access_token.id]_vars

\* C23 witness: a token with the server's signature was refused as expired
C23_Witness ==
    /\ last.op = "details"
    /\ last.at = "det_authenticate"
    /\ last.token.sig = "HS256"
    /\ last.svc = "TokenExpiredError"
    /\ last.status = 401

\* The value a user row would hold if the password p were stored as it came
Plaintext(p) == [alg |-> "plain", rounds |-> 0, of |-> p]

\* C24 (Spec): the user row a register inserts holds the bcrypt hash (12 rounds)
\* of the request's password, not the password; the record sent with the 201
\* has exactly the fields id, full_name and email; and every stored password
\* is a bcrypt hash.
C24_PasswordHashedNeverReturned ==
    [][/\ \A i \in Tasks :
            LET t == tasks[i]
            IN  (t.pc = "reg_create" /\ tasks'[i] # t)
                   => /\ \E r \in users' \ users :
                            /\ users' = users \cup {r}
                            /\ r.password = bcryptHash(t.password)
                            /\ r.password.alg = "bcrypt"
                            /\ r.password.rounds = saltRounds
                            /\ r.password # Plaintext(t.password)
                      /\ DOMAIN last'.user = {"id", "full_name", "email"}
                      /\ last'.user.full_name = t.full_name
                      /\ last'.user.email = t.email
       /\ \A r \in users' : r.password.alg = "bcrypt"]_vars

\* C24 witness: a register has answered 201 and its row holds a hash
C24_Witness ==
    /\ last.op = "register"
    /\ last.status = 201
    /\ \E r \in users :
          /\ r.id = last.user.id
          /\ r.password.alg = "bcrypt"
          /\ r.password.of = PassBob

\* The instant, in seconds, that a GMT+8 MySQL datetime denotes
InstantOf(d) == d.date * DaySecs + d.time - TzOffset

\* The distance of two instants
Distance(a, b) == IF a >= b THEN a - b ELSE b - a

\* C25 (Spec): for every whitelist row, expires_at (a GMT+8 datetime) denotes the
\* instant 7 days after the row's login (the issue time of its token), and
\* differs from the expiry embedded in the row's refresh token by at most one
\* second.
C25_ExpiryConsistent ==
    \A w \in whitelist :
        /\ w.refresh_token.exp = w.refresh_token.iat + RefreshTTL
        /\ Distance(InstantOf(w.expires_at), w.refresh_token.iat + RefreshDays * DaySecs) <= 1
        /\ Distance(InstantOf(w.expires_at), w.refresh_token.exp) <= 1
        /\ w.expires_at.time \in 0..(DaySecs - 1)

\* C25 witness: a row of a login made 15 minutes after the start of the clock,
\* whose expiry falls on a later date and time of day
C25_Witness ==
    \E w \in whitelist :
        /\ w.refresh_token.iat = AccessTTL
        /\ w.expires_at = [date |-> RefreshDays, time |-> AccessTTL + TzOffset]

\* Field values of register requests, one or more of each validation class
ValidationNames == {Missing, Blank, NameAnn}
ValidationEmails == {Missing, Blank, EmailBad, EmailAnn, EmailBob}
ValidationPasswords == {Missing, Blank, PassShort, PassAnn}

\* C26 (SpecSeq): validateRegistrationData reports ALL_FIELDS_REQUIRED exactly
\* when a field is missing or blank, else INVALID_EMAIL_FORMAT exactly when the
\* email is malformed, else PASSWORD_TOO_SHORT exactly when the password has
\* fewer than 8 characters; a malformed email with a short password yields
\* INVALID_EMAIL_FORMAT; a short password with a registered email yields
\* PASSWORD_TOO_SHORT; and EMAIL_EXISTS is reported only at the email lookup,
\* which only requests that passed all three tests reach.
C26_FirstFailingCheck ==
    /\ \A f \in ValidationNames, e \in ValidationEmails, p \in ValidationPasswords :
          LET v == validateRegistrationData(f, e, p)
              blank == IsBlank(f) \/ IsBlank(e) \/ IsBlank(p)
          IN  /\ v = "ALL_FIELDS_REQUIRED" <=> blank
              /\ v = "INVALID_EMAIL_FORMAT" <=> (~blank /\ ~EmailFormatOK(e))
              /\ v = "PASSWORD_TOO_SHORT"
                    <=> (~blank /\ EmailFormatOK(e) /\ Len(p) < MinPasswordLen)
              /\ v = "OK" <=> (~blank /\ EmailFormatOK(e) /\ Len(p) >= MinPasswordLen)
    /\ validateRegistrationData(NameAnn, EmailBad, PassShort) = "INVALID_EMAIL_FORMAT"
    /\ validateRegistrationData(NameAnn, EmailAnn, PassShort) = "PASSWORD_TOO_SHORT"
    /\ validateRegistrationData(Blank, EmailBad, PassShort) = "ALL_FIELDS_REQUIRED"
    /\ \A i \in Tasks :
          tasks[i].pc \in {"reg_emailExists", "reg_create"}
             => /\ ~IsBlank(tasks[i].full_name)
                /\ ~IsBlank(tasks[i].email)
                /\ ~IsBlank(tasks[i].password)
                /\ EmailFormatOK(tasks[i].email)
                /\ Len(tasks[i].password) >= MinPasswordLen
    /\ (last.op = "register" /\ last.svc = "EMAIL_EXISTS") => last.at = "reg_emailExists"
    /\ (last.op = "register" /\ last.svc \in RegisterValidationErrors)
          => last.at = "reg_validate"

\* C26 witness: a register with a short password was refused for the password
\* while its email is registered
C26_Witness ==
    /\ last.op = "register"
    /\ last.svc = "PASSWORD_TOO_SHORT"
    /\ \E r \in users : r.email = EmailAnn

\* The errors of the field validation of register, login and logout
FieldValidationErrors == RegisterValidationErrors \cup {"LOGOUT_FIELDS_REQUIRED"}

\* The positions of a request before its first storage call
ValidationPcs == {"reg_validate", "login_validate", "logout_validate"}

\* The fields of request t pass the validation of its operation
FieldsValid(t) ==
    CASE t.op = "register" ->
            validateRegistrationData(t.full_name, t.email, t.password) = "OK"
      [] t.op = "login" -> ~IsEmpty(t.email) /\ ~IsEmpty(t.password)
      [] t.op = "logout" -> t.user_id # 0 /\ t.refresh_token # NoTok
      [] OTHER -> TRUE

\* C27 (Spec): a register, login or logout request that fails its field
\* validation is answered in the step that receives it, before its first
\* storage call: the step leaves the four tables and every request under way
\* as they were; and every request that is at a storage call carries fields
\* that pass the validation.
C27_ValidationBeforeStorage ==
    [][/\ \A i \in Tasks :
             (tasks[i].op \in AuthOps /\ tasks[i].pc \notin ValidationPcs)
                => FieldsValid(tasks[i])
       /\ (last' # last /\ last'.op \in AuthOps /\ last'.svc \in FieldValidationErrors)
             => /\ last'.at \in ValidationPcs
                /\ tasks' = tasks
                /\ UNCHANGED Tables]_vars

\* C27 witness: a logout without a refresh token was refused at its validation
\* while users and whitelist rows are stored
C27_Witness ==
    /\ last.op = "logout"
    /\ last.svc = "LOGOUT_FIELDS_REQUIRED"
    /\ last.at = "logout_validate"
    /\ users # {}
    /\ whitelist # {}

\* C28 (Spec): the tokens a login mints carry the id of a stored user row that
\* has the login's email and a hash its password matches, and the login holds
\* that id as the user_id of its insertion data; the 200 response returns
\* those two tokens, and the whitelist row inserted in the same step has that
\* user_id and the returned refresh token.
C28_TokensBoundToUser ==
    [][\A i \in Tasks :
        LET t == tasks[i]
        IN  /\ (t.pc = "login_findUser" /\ tasks'[i].pc = "login_userExists")
                  => \E u \in Authenticates(t) :
                        /\ tasks'[i].user_id = u.id
                        /\ tasks'[i].access_token.id = u.id
                        /\ tasks'[i].refresh_token.id = u.id
            /\ (t.pc = "login_insert" /\ tasks'[i] = IdleTask /\ last'.status = 200)
                  => \E u \in Authenticates(t) :
                        /\ last'.op = "login"
                        /\ last'.access_token = t.access_token
                        /\ last'.refresh_token = t.refresh_token
                        /\ last'.access_token.id = u.id
                        /\ last'.refresh_token.id = u.id
                        /\ \E w \in whitelist' \ whitelist :
                              /\ w.user_id = u.id
                              /\ w.refresh_token = last'.refresh_token]_vars

\* C28 witness: a login of the second registered user was answered 200 with
\* tokens for id 2 and a whitelist row of user 2 holds the refresh token
C28_Witness ==
    /\ last.op = "login"
    /\ last.status = 200
    /\ last.access_token.id = 2
    /\ last.refresh_token.id = 2
    /\ \E w \in whitelist : w.user_id = 2 /\ w.refresh_token = last.refresh_token

\* C29 (SpecDetails): a step that removes or changes a stored whitelist row is
\* the delete step of a logout, and the rows it removes are rows of that
\* logout's user_id and refresh token; every other step (register, login,
\* token authentication, user lookups, the passage of time, also past a row's
\* expires_at) keeps every stored row as it is.
C29_OnlyLogoutRemoves ==
    [][~(whitelist \subseteq whitelist')
          => \E i \in Tasks :
                /\ tasks[i].pc = "logout_delete"
                /\ tasks'[i].pc = "logout_fetchUser"
                /\ whitelist \ whitelist'
                      \subseteq WhitelistMatch(tasks[i].user_id, tasks[i].refresh_token)
                /\ whitelist' \subseteq whitelist]_vars

\* C29 witness: a whitelist row is still stored after its expires_at has
\* passed and after a later request passed token authentication
C29_Witness ==
    /\ \E w \in whitelist : DatetimeBefore(w.expires_at, DatetimeNow)
    /\ last.op = "details"
    /\ last.status = 200

\* C30 (SpecSeq): updateUserById answers 400 "Email already belongs to another
\* user" only when a stored user other than the one being updated has the
\* submitted email; an update that submits the user's own current email is
\* not refused by the email check.
C30_RejectsOnlyOthersEmail ==
    [][\A i \in Tasks :
        LET t == tasks[i]
        IN  (t.pc = "upd_emailExists" /\ tasks'[i] = IdleTask
                /\ last'.op = "update" /\ last'.svc = "EMAIL_TAKEN")
              => \E r \in users : r.email = t.email /\ r.id # t.user_id]_vars

\* C31 (Spec): every step of a logout(u, t) leaves the user records as they
\* are, adds no whitelist row and keeps every whitelist row of another user or
\* with another token; its delete step removes exactly the rows whose user_id
\* is u and whose refresh_token is t, and its other steps remove none.
C31_LogoutRemovesOnlyItsPair ==
    [][\A i \in Tasks :
        LET t == tasks[i]
        IN  (t.op = "logout" /\ tasks'[i] # t)
              => /\ users' = users
                 /\ nextUserId' = nextUserId
                 /\ whitelist' \subseteq whitelist
                 /\ \A w \in whitelist :
                       (w.user_id # t.user_id \/ w.refresh_token # t.refresh_token)
                          => w \in whitelist'
                 /\ IF t.pc = "logout_delete"
                    THEN \A w \in whitelist :
                            (w.user_id = t.user_id /\ w.refresh_token = t.refresh_token)
                               => w \notin whitelist'
                    ELSE whitelist' = whitelist]_vars

\* C31 witness: a logout that removed a row was answered 200 while the same
\* user still has a whitelist row with another token
C31_Witness ==
    /\ last.op = "logout"
    /\ last.status = 200
    /\ last.affected >= 1
    /\ \E w \in whitelist : w.user_id = last.user_id /\ w.refresh_token # last.token
    /\ users # {}

\* C32 (SpecDetails): the token with which a request passes the authentication
\* middleware is an access token some login returned, not a refresh token, and
\* the request arrives no more than 15 minutes after that login.
C32_OnlyAccessTokensAuthenticate ==
    [][\A i \in Tasks :
        (Free(i) /\ tasks'[i].pc = "det_fetchUser")
           => LET c == tasks'[i].access_token
              IN  /\ c \in IssuedAccessTokens
                  /\ c \notin KnownTokens
                  /\ now <= c.iat + AccessTTL]_vars

\* C33 (SpecFault): a logout that is answered with a status other than 200 has
\* removed no whitelist row, neither in the step that answers nor in an
\* earlier step of the same request.
C33_FailedLogoutKeepsWhitelist ==
    [][\A i \in Tasks :
        LET t == tasks[i]
        IN  (t.op = "logout" /\ tasks'[i] = IdleTask /\ last'.status # 200)
              => /\ last'.op = "logout"
                 /\ t.affected = 0
                 /\ t.pc # "logout_fetchUser"
                 /\ whitelist' = whitelist]_vars

\* C34 (SpecAccount): whenever GET /api/users/details answers 200, its data is
\* the id, full name and email of a user row that is stored at that time and
\* whose id is the id of the presented token; a token of a deleted user gets
\* no 200.
C34_DetailsOfExistingUser ==
    [][\A i \in Tasks :
        LET t == tasks[i]
        IN  (t.pc = "det_fetchUser" /\ tasks'[i] = IdleTask /\ last'.status = 200)
              => \E r \in users :
                    /\ r.id = t.access_token.id
                    /\ last'.user = [id |-> r.id, full_name |-> r.full_name,
                                     email |-> r.email]]_vars

\* The status codes of the responses of register, login and logout
AuthStatusCodes == {200, 201, 400, 401, 409, 500}

\* C35 (SpecLive): when every storage call returns or fails, every register,
\* login and logout request under way is eventually answered; a request leaves
\* a task slot only in a step that sends its response, with one of the status
\* codes of the three controllers, and while no other request is answered; a
\* step that accepts a request sends no response; and a response is sent only
\* by a step that ends a request under way or refuses one at its validation.
C35_EveryRequestAnsweredOnce ==
    /\ \A i \in Tasks : (tasks[i].op \in AuthOps) ~> (tasks[i] = IdleTask)
    /\ [][/\ \A i \in Tasks :
              LET t == tasks[i]
              IN  /\ (~Free(i) /\ tasks'[i] = IdleTask)
                        => /\ last'.op = t.op
                           /\ last'.at = t.pc
                           /\ last'.status \in AuthStatusCodes
                           /\ \A j \in Tasks \ {i} : tasks'[j] = tasks[j]
                  /\ (~Free(i) /\ tasks'[i] # t) => tasks'[i].op \in {t.op, "none"}
                  /\ (Free(i) /\ tasks'[i] # t) => last' = NoResponse
         /\ (last' # last /\ last' # NoResponse)
               => /\ last'.op \in AuthOps
                  /\ last'.status \in AuthStatusCodes
                  /\ \/ tasks' = tasks /\ last'.at \in ValidationPcs
                     \/ \E i \in Tasks :
                           /\ ~Free(i)
                           /\ tasks'[i] = IdleTask
                           /\ last'.at = tasks[i].pc]_vars

\* C35 witness: a login whose whitelist insert failed has been answered 500 and
\* no request is under way
C35_Witness ==
    /\ last.op = "login"
    /\ last.at = "login_insert"
    /\ last.svc = "STORAGE_FAILURE"
    /\ last.status = 500
    /\ \A i \in Tasks : Free(i)

====
